---- MODULE Spec2Model ----
(***************************************************************************)
(* Change-detection and deferred-commit pipeline of vm-auto-deployer:      *)
(* change_tracker.py (fingerprint store, change log, scanner, batcher)     *)
(* and daily_commit_guarantor.py (daily fallback commit).                  *)
(***************************************************************************)
EXTENDS Integers, Sequences, FiniteSets, TLC

(* ---------------- bounds of the model ---------------- *)
\* number of environment steps (file edits, external commits, broken
\* project directories) and guarantor runs explored; every change row needs
\* a file that was there at the start or an edit, so this bounds the change
\* log too
MaxEdits == 1
\* guarantor runs on one calendar day that write the stats file
MaxRuns == 2

(* ---------------- configuration ---------------- *)
\* TRACKED_PROJECTS, in dict (insertion) order; two of the four entries
TRACKED_PROJECTS == <<"claude-mailbox", "auto-deployer">>
Projects == {TRACKED_PROJECTS[i] : i \in 1..Len(TRACKED_PROJECTS)}
\* trackable files (relative paths) that may exist in a project tree
Paths == {"a.py", "b.py"}
\* file contents
Contents == {"v1", "v2"}
Absent == "absent"
Unreadable == "unreadable"
Cells == Contents \cup {Absent, Unreadable}
None == "None"
\* STATS_PROJECT, the fallback project of the guarantor (it is tracked too)
STATS_PROJECT == "auto-deployer"
\* history = history[-30:]
HistoryCap == 30

VARIABLES
    fs,          \* working trees: fs[p][f] \in Cells
    head,        \* git HEAD snapshot of each project's tree
    repo,        \* "ok" | "nogit" | "missing" : state of the project directory
    file_hashes, \* table file_hashes: a set of rows [project, filepath, hash]
    changes,     \* table changes: sequence of rows, in rowid order
    now,         \* CURRENT_TIMESTAMP
    commitToday, \* commitToday[p]: `git log --since <today>` of p is not empty
    statsDirty,  \* daily_stats.json was written and is not committed yet
    history,     \* the 'history' list stored in daily_stats.json
    appended,    \* every entry appended to that file so far, oldest first
    today,       \* the calendar day, as a day number
    edits,       \* environment steps and guarantor runs taken so far
    lastOp,      \* the last step that wrote: "start", "scan", "init",
                 \* "commit", "guarantor", "env"
    last,        \* what the last `commit` command did, per project
    gres,        \* what the last guarantor run reported
    dberr,       \* the project whose scan hit an sqlite3 error in the last
                 \* scan run, or None
    inv,         \* overlapping `commit` invocations: where each one is and
                 \* the pending list it has read
    cand         \* a file path met by rglob and what should_track said

vars == <<fs, head, repo, file_hashes, changes, now, commitToday, statsDirty,
          history, appended, today, edits, lastOp, last, gres, dberr, inv,
          cand>>
\* the variables only the storage-failure, overlap and should_track
\* specifications change
side == <<dberr, inv, cand>>
\* the git state the commands work on
Git == [head |-> head, commitToday |-> commitToday, statsDirty |-> statsDirty]

(* ---------------- helpers ---------------- *)
Range(s) == {s[i] : i \in 1..Len(s)}

\* all orderings of a finite set
RECURSIVE Perms(_)
Perms(S) ==
    IF S = {} THEN {<<>>}
    ELSE UNION {{<<x>> \o t : t \in Perms(S \ {x})} : x \in S}

\* hashlib.md5(bytes).hexdigest(); None when the file cannot be opened
get_file_hash(cell) ==
    IF cell \in Contents THEN "md5(" \o cell \o ")" ELSE None

(* ---------------- should_track ---------------- *)
TRACK_PATTERNS == <<"*.py", "*.js", "*.md", "*.json", "*.sh">>
IGNORE_PATTERNS == <<"__pycache__", "*.pyc", "node_modules", "*.db", "*.log", "*.enc">>

\* str.startswith, str.endswith, `sub in s`, pattern[1:]
startswith(s, pre) == Len(pre) <= Len(s) /\ SubSeq(s, 1, Len(pre)) = pre
endswith(s, suf) ==
    Len(suf) <= Len(s) /\ SubSeq(s, Len(s) - Len(suf) + 1, Len(s)) = suf
contains(s, sub) ==
    \E i \in 1..(Len(s) - Len(sub) + 1) : SubSeq(s, i, i + Len(sub) - 1) = sub
from1(s) == SubSeq(s, 2, Len(s))

\* os.path.basename: what follows the last "/"
basename(path) ==
    LET slashes == {i \in 1..Len(path) : SubSeq(path, i, i) = "/"}
    IN  IF slashes = {} THEN path
        ELSE SubSeq(path, (CHOOSE i \in slashes : \A j \in slashes : j <= i) + 1,
                    Len(path))

\* the loop over IGNORE_PATTERNS from index i on: TRUE when it returns False
RECURSIVE ignore_loop(_, _, _)
ignore_loop(i, name, path_str) ==
    IF i > Len(IGNORE_PATTERNS) THEN FALSE
    ELSE LET pattern == IGNORE_PATTERNS[i]
         IN  IF startswith(pattern, "*")
                 THEN IF endswith(name, from1(pattern)) THEN TRUE
                      ELSE ignore_loop(i + 1, name, path_str)
             ELSE IF contains(path_str, pattern) THEN TRUE
             ELSE ignore_loop(i + 1, name, path_str)

\* the loop over TRACK_PATTERNS from index i on: TRUE when it returns True
RECURSIVE track_loop(_, _)
track_loop(i, name) ==
    IF i > Len(TRACK_PATTERNS) THEN FALSE
    ELSE LET pattern == TRACK_PATTERNS[i]
         IN  IF startswith(pattern, "*") /\ endswith(name, from1(pattern))
                 THEN TRUE
             ELSE track_loop(i + 1, name)

\* should_track(filepath)
should_track_include_first(filepath) ==
    track_loop(1, basename(filepath))

should_track(filepath) ==
    LET name == basename(filepath)
        path_str == filepath
    IN  IF ignore_loop(1, name, path_str) THEN FALSE
        ELSE track_loop(1, name)

(* ---------------- storage: init_db ---------------- *)
\* CREATE TABLE IF NOT EXISTS file_hashes / changes: both tables empty
EmptyHashes == {}
EmptyChanges == <<>>

\* SELECT hash FROM file_hashes WHERE project=? AND filepath=?, fetchone():
\* the hash of a matching row, or None when no row matches
select_hash(rows, p, f) ==
    LET found == {r \in rows : r.project = p /\ r.filepath = f}
    IN  IF found = {} THEN None ELSE (CHOOSE r \in found : TRUE).hash

\* INSERT INTO file_hashes (project, filepath, hash) VALUES (?, ?, ?)
insert_hash(rows, p, f, h) ==
    rows \cup {[project |-> p, filepath |-> f, hash |-> h]}

\* UPDATE file_hashes SET hash=? WHERE project=? AND filepath=?
update_hash_insert(rows, p, f, h) == insert_hash(rows, p, f, h)

update_hash_skip(rows, p, f, h) == rows

update_hash(rows, p, f, h) ==
    {IF r.project = p /\ r.filepath = f THEN [r EXCEPT !.hash = h] ELSE r :
        r \in rows}

(* ---------------- scanner ---------------- *)
\* rglob over TRACK_PATTERNS filtered by should_track: the files in the tree
current_files(p) ==
    IF repo[p] = "missing" THEN {} ELSE {f \in Paths : fs[p][f] # Absent}

\* one change dict as built in scan_project
NewChange(p, f, type) ==
    [project |-> p, filepath |-> f, type |-> type,
     description |-> IF type = "added" THEN "New file: " \o f
                     ELSE "Modified: " \o f]

\* the comparison of the stored row with the current hash in scan_project:
\* a change of this kind is recorded and the fingerprint written, or "same"
change_kind_rewrite(row, file_hash) ==
    IF row = None THEN "added" ELSE "modified"

change_kind_never_modified(row, file_hash) ==
    IF row = None THEN "added" ELSE "same"

change_kind(row, file_hash) ==
    IF row = None THEN "added"
    ELSE IF row # file_hash THEN "modified"
    ELSE "same"

\* the loop "for filepath in current_files" of scan_project, in a given
\* iteration order; returns the table file_hashes and the list of change
\* dicts
RECURSIVE scan_loop(_, _, _, _)
scan_loop(p, order, rows, chg) ==
    IF order = <<>> THEN [rows |-> rows, chg |-> chg]
    ELSE LET f == Head(order)
             file_hash == get_file_hash(fs[p][f])
             kind == change_kind(select_hash(rows, p, f), file_hash)
         IN  IF file_hash = None \/ kind = "same"
                 THEN scan_loop(p, Tail(order), rows, chg)
             ELSE IF kind = "added"
                 THEN scan_loop(p, Tail(order),
                                insert_hash(rows, p, f, file_hash),
                                Append(chg, NewChange(p, f, kind)))
             ELSE scan_loop(p, Tail(order),
                            update_hash(rows, p, f, file_hash),
                            Append(chg, NewChange(p, f, kind)))

\* INSERT INTO changes (...) for every change dict, rowid = max(rowid) + 1,
\* committed DEFAULT 0, created_at DEFAULT CURRENT_TIMESTAMP
RECURSIVE insert_changes(_, _)
insert_changes(log, chg) ==
    IF chg = <<>> THEN log
    ELSE insert_changes(
            Append(log, [id |-> Len(log) + 1,
                         project |-> Head(chg).project,
                         filepath |-> Head(chg).filepath,
                         change_type |-> Head(chg).type,
                         description |-> Head(chg).description,
                         committed |-> FALSE,
                         created_at |-> now]),
            Tail(chg))

scan_project_prune(p, order, db) ==
    IF repo[p] = "missing" THEN [hashes |-> db.hashes, log |-> db.log, found |-> <<>>]
    ELSE LET kept == {x \in db.hashes :
                        x.project # p \/ x.filepath \in current_files(p)}
             r == scan_loop(p, order, kept, <<>>)
         IN  [hashes |-> r.rows,
              log |-> insert_changes(db.log, r.chg),
              found |-> r.chg]

\* scan_project(project_name, project_path) on the store db = [hashes, log];
\* order is the iteration order of the set current_files
scan_project(p, order, db) ==
    IF repo[p] = "missing" THEN [hashes |-> db.hashes, log |-> db.log, found |-> <<>>]
    ELSE LET r == scan_loop(p, order, db.hashes, <<>>)
         IN  [hashes |-> r.rows,
              log |-> insert_changes(db.log, r.chg),
              found |-> r.chg]

\* scan_all(): every tracked project in dict order; orders[p] is the
\* iteration order used for project p
RECURSIVE scan_all(_, _, _)
scan_all(i, orders, db) ==
    IF i > Len(TRACKED_PROJECTS) THEN db
    ELSE LET p == TRACKED_PROJECTS[i]
             r == scan_project(p, orders[p], db)
         IN  scan_all(i + 1, orders,
                      [hashes |-> r.hashes, log |-> r.log,
                       found |-> db.found \o r.found])

\* what changes.db holds after a scan_project call that is interrupted when
\* k files of its loop have been handled, before conn.commit(): the INSERTs
\* and UPDATEs so far belong to the transaction sqlite3 opened at the first
\* of them, and the connection is dropped without a commit, so none of
\* them is persisted
scan_interrupted_autocommit(p, order, db, k) ==
    [hashes |-> scan_loop(p, SubSeq(order, 1, k), db.hashes, <<>>).rows,
     log |-> db.log]

scan_interrupted(p, order, db, k) == [hashes |-> db.hashes, log |-> db.log]

\* scan_all() when the store is unavailable during the scan of project bad
\* (None: it stays available), after k files of that project: an execute
\* of that scan_project call raises sqlite3.Error; nothing catches it in
\* scan_project or scan_all, the transaction of that call is never
\* committed, and the exception ends the loop over TRACKED_PROJECTS
RECURSIVE scan_all_db(_, _, _, _, _)
scan_all_db(i, orders, db, bad, k) ==
    IF i > Len(TRACKED_PROJECTS)
        THEN [hashes |-> db.hashes, log |-> db.log, found |-> db.found,
              raised |-> FALSE]
    ELSE LET p == TRACKED_PROJECTS[i]
             r == scan_project(p, orders[p], db)
             cut == scan_interrupted(p, orders[p], db, k)
         IN  IF p = bad
                 THEN [hashes |-> cut.hashes, log |-> cut.log,
                       found |-> db.found, raised |-> TRUE]
             ELSE scan_all_db(i + 1, orders,
                              [hashes |-> r.hashes, log |-> r.log,
                               found |-> db.found \o r.found],
                              bad, k)

ScanOrders == {o \in [Projects -> UNION {Perms(S) : S \in SUBSET Paths}] :
                 \A p \in Projects : o[p] \in Perms(current_files(p))}

Store == [hashes |-> file_hashes, log |-> changes, found |-> <<>>]

(* ---------------- change queue ---------------- *)
\* the dict get_pending_changes builds from a row (no committed column)
PendingDict(r) ==
    [id |-> r.id, project |-> r.project, filepath |-> r.filepath,
     type |-> r.change_type, description |-> r.description,
     created_at |-> r.created_at]

\* sequences over S ordered by created_at; rows with equal created_at come
\* in any order (ORDER BY created_at has no tie-break)
OrderedByCreatedAt(S) ==
    {s \in Perms(S) : \A i, j \in 1..Len(s) :
                        i < j => s[i].created_at <= s[j].created_at}

\* get_pending_changes(): SELECT ... FROM changes WHERE committed=0
\* ORDER BY created_at; the set of lists the query may return
get_pending_changes_all(log) ==
    OrderedByCreatedAt({PendingDict(r) : r \in Range(log)})

get_pending_changes(log) ==
    OrderedByCreatedAt({PendingDict(r) : r \in {x \in Range(log) : ~x.committed}})

\* mark_committed(change_ids): UPDATE changes SET committed=1 WHERE id=?
mark_committed_toggle(log, change_ids) ==
    [i \in 1..Len(log) |->
        IF log[i].id \in change_ids
        THEN [log[i] EXCEPT !.committed = ~log[i].committed]
        ELSE log[i]]

mark_committed_delete(log, change_ids) ==
    SelectSeq(log, LAMBDA r : r.id \notin change_ids)

mark_committed(log, change_ids) ==
    [i \in 1..Len(log) |->
        IF log[i].id \in change_ids THEN [log[i] EXCEPT !.committed = TRUE]
        ELSE log[i]]

(* ---------------- commit batcher ---------------- *)
\* generate_commit_message(changes): changes is a list of pending dicts
generate_commit_message_count(chg) ==
    IF chg = <<>> THEN None
    ELSE "[" \o chg[1].project \o "] Update " \o ToString(Len(chg)) \o " files"

generate_commit_message(chg) ==
    IF chg = <<>> THEN None
    ELSE LET projects == {chg[i].project : i \in 1..Len(chg)}
         IN  IF Cardinality(projects) = 1
             THEN LET project == CHOOSE q \in projects : TRUE
                      files == [i \in 1..Len(chg) |-> chg[i].filepath]
                  IN  IF Len(files) = 1
                      THEN "[" \o project \o "] Update " \o files[1]
                      ELSE "[" \o project \o "] Update "
                               \o ToString(Len(files)) \o " files"
             ELSE "Update " \o ToString(Len(chg)) \o " files across "
                      \o ToString(Cardinality(projects)) \o " projects"

\* what the external tools answer during one commit_to_github call:
\* git add (exit status), git commit when there is something to commit,
\* openssl (token), git push (exit status; covers git's own network timeout)
ExtOutcomes ==
    {e \in [add : {"ok", "fail"}, commit : {"ok", "fail"},
            token : {"ok", "empty", "raise"}, push : {"ok", "fail"}] :
        /\ e.add = "fail" => e.commit = "ok" /\ e.token = "ok" /\ e.push = "ok"
        /\ e.token = "raise" => e.push = "ok"}
DefaultExt == [add |-> "ok", commit |-> "ok", token |-> "ok", push |-> "ok"]

\* nothing was attempted for a project
NoAttempt ==
    [attempted |-> FALSE, batch |-> {}, message |-> None, result |-> "none",
     add |-> "none", commit |-> "none", token |-> "none", push |-> "none"]
NoRun == [p \in Projects |-> NoAttempt]

\* git add -A cannot index a file it cannot open
AddFails(p, e) == e.add = "fail" \/ \E f \in Paths : fs[p][f] = Unreadable

\* git commit has something to commit after git add -A
TreeDirty(p, g) == fs[p] # g.head[p] \/ (p = STATS_PROJECT /\ g.statsDirty)

\* a commit of the whole working tree of p was created
Committed(p, g) ==
    [head |-> [g.head EXCEPT ![p] = fs[p]],
     commitToday |-> [g.commitToday EXCEPT ![p] = TRUE],
     statsDirty |-> IF p = STATS_PROJECT THEN FALSE ELSE g.statsDirty]

\* commit_to_github(project_name, message) with tool answers e, on git
\* state g; result is "error", "no_changes", "committed" or "raise"
\* (os.chdir on a missing directory is outside the try block)
commit_to_github(p, message, e, g) ==
    LET base == [NoAttempt EXCEPT !.attempted = TRUE, !.message = message]
    IN
    IF p \notin Projects
        THEN [obs |-> [base EXCEPT !.result = "error"], git |-> g]
    ELSE IF repo[p] = "missing"
        THEN [obs |-> [base EXCEPT !.result = "raise"], git |-> g]
    ELSE IF repo[p] = "nogit"
        THEN [obs |-> [base EXCEPT !.result = "error"], git |-> g]
    ELSE IF AddFails(p, e)
        THEN [obs |-> [base EXCEPT !.result = "error", !.add = "fail"], git |-> g]
    ELSE IF ~TreeDirty(p, g)
        THEN [obs |-> [base EXCEPT !.result = "no_changes", !.add = "ok",
                                   !.commit = "nothing"],
              git |-> g]
    ELSE LET g2 == IF e.commit = "ok" THEN Committed(p, g) ELSE g
         IN  IF e.token = "raise"
             THEN [obs |-> [base EXCEPT !.result = "error", !.add = "ok",
                                        !.commit = e.commit, !.token = e.token],
                   git |-> g2]
             ELSE [obs |-> [base EXCEPT !.result = "committed", !.add = "ok",
                                        !.commit = e.commit, !.token = e.token,
                                        !.push = e.push],
                   git |-> g2]

\* `if result.get("status") == "committed"` of the commit command
should_mark_unless_error(result) == result \in {"committed", "no_changes"}

should_mark(result) == result = "committed"

\* by_project: the pending dicts of project p, in the order of the list
by_project(pending, p) == SelectSeq(pending, LAMBDA c : c.project = p)

\* keys of by_project in insertion order: projects by first appearance
RECURSIVE project_order(_)
project_order(pending) ==
    IF pending = <<>> THEN <<>>
    ELSE LET rest == project_order(SelectSeq(Tail(pending),
                         LAMBDA c : c.project # Head(pending).project))
         IN  <<Head(pending).project>> \o rest

\* the by_project dict of the commit command, built from the pending list:
\* its keys in insertion order and, for each key, what the loop body uses
\* of the project's list: the commit message and the ids
commit_plan(pending) ==
    [order |-> project_order(pending),
     msg |-> [p \in Projects |-> generate_commit_message(by_project(pending, p))],
     ids |-> [p \in Projects |->
                {by_project(pending, p)[i].id :
                    i \in 1..Len(by_project(pending, p))}]]

\* the loop "for project, changes in by_project.items()" of the commit
\* command; st = [log, git, last]
RECURSIVE commit_loop(_, _, _, _)
commit_loop(order, plan, ext, st) ==
    IF order = <<>> THEN st
    ELSE LET p == Head(order)
             r == commit_to_github(p, plan.msg[p], ext[p], st.git)
             obs == [r.obs EXCEPT !.batch = plan.ids[p]]
             st2 == [log |-> IF should_mark(r.obs.result)
                             THEN mark_committed(st.log, plan.ids[p])
                             ELSE st.log,
                     git |-> r.git,
                     last |-> [st.last EXCEPT ![p] = obs]]
         IN  IF r.obs.result = "raise" THEN st2
             ELSE commit_loop(Tail(order), plan, ext, st2)

(* ---------------- daily activity guarantor ---------------- *)
\* the guarantor's TRACKED_PROJECTS (two of its seven entries)
G_TRACKED_PROJECTS == Projects

\* no guarantor run to report on; of a run: what main reported, the
\* projects whose history query printed nothing although they have a commit
\* today, the per-project results main printed, whether daily_stats.json
\* was written, and git's answers
GNoRun ==
    [report |-> "none", qerr |-> {}, commits |-> [p \in Projects |-> FALSE],
     wrote |-> FALSE,
     add |-> "none", commit |-> "none", push |-> "none"]

\* check_commit_today(project_path); qerr holds the projects whose
\* `git log --oneline --since <date>` prints nothing although the project
\* has a commit today: the query raises or times out, or the commit is
\* older than the time of day of the query (git reads a bare date as that
\* day at the current clock time)
check_commit_today_ignore_error(p, qerr) ==
    IF repo[p] # "ok" THEN FALSE ELSE commitToday[p]

check_commit_today(p, qerr) ==
    IF repo[p] # "ok" THEN FALSE
    ELSE IF p \in qerr THEN FALSE
    ELSE commitToday[p]

\* check_any_commit_today()
check_any_commit_today(qerr) ==
    [p \in G_TRACKED_PROJECTS |->
        IF repo[p] # "missing" THEN check_commit_today(p, qerr) ELSE FALSE]

\* collect_daily_stats(): the DailyStatsEntry (service statuses and uptime
\* are free text that nothing depends on)
collect_daily_stats(qerr) ==
    LET commits == check_any_commit_today(qerr)
    IN  [date |-> today,
         commits_total |-> Cardinality({p \in G_TRACKED_PROJECTS : commits[p]})]

\* history[-n:]
LastN_oldest(h, n) == IF Len(h) <= n THEN h ELSE SubSeq(h, 1, n)

LastN(h, n) == IF Len(h) <= n THEN h ELSE SubSeq(h, Len(h) - n + 1, Len(h))

\* what git answers during create_stats_commit: add (exit status), commit
\* ("nothing" is a 'nothing to commit' answer), push (exit status or timeout)
GExtOutcomes ==
    {e \in [add : {"ok", "fail"}, commit : {"ok", "fail", "nothing"},
            push : {"ok", "fail"}] :
        /\ e.add = "fail" => e.commit = "ok" /\ e.push = "ok"
        /\ e.commit = "nothing" => e.push = "ok"}

\* the exit status of `git -C <stats project> add daily_stats.json`
stats_add_answer(e) ==
    IF e.add = "fail" \/ repo[STATS_PROJECT] = "nogit" THEN "fail" ELSE "ok"

\* check=True of the git add call: a non-zero exit status raises
stats_add_unchecked(answer) == FALSE

stats_add_raises(answer) == answer = "fail"

\* check=True and timeout=60 of the git push call: a non-zero exit status
\* or a timeout raises
stats_push_unchecked(answer) == FALSE

stats_push_raises(answer) == answer = "fail"

\* create_stats_commit(); returns [ok, history, git, obs]
create_stats_commit(qerr, e, g) ==
    IF repo[STATS_PROJECT] = "missing"
    THEN [ok |-> FALSE, history |-> history, git |-> g, obs |-> GNoRun]
    ELSE LET stats == collect_daily_stats(qerr)
             h2 == LastN(Append(history, stats), HistoryCap)
             written == [g EXCEPT !.statsDirty = TRUE]
             add == stats_add_answer(e)
             base == [GNoRun EXCEPT !.wrote = TRUE, !.add = add]
         IN  IF stats_add_raises(add)
             THEN [ok |-> FALSE, history |-> h2, git |-> written, obs |-> base]
             ELSE IF e.commit = "nothing"
             THEN [ok |-> FALSE, history |-> h2, git |-> written,
                   obs |-> [base EXCEPT !.commit = "nothing"]]
             ELSE LET g2 == IF e.commit = "ok" /\ repo[STATS_PROJECT] = "ok"
                            THEN [written EXCEPT
                                    !.statsDirty = FALSE,
                                    !.commitToday[STATS_PROJECT] = TRUE]
                            ELSE written
                  IN  [ok |-> ~stats_push_raises(e.push), history |-> h2,
                       git |-> g2,
                       obs |-> [base EXCEPT !.commit = e.commit,
                                            !.push = e.push]]

\* the outcome main prints and sends after create_stats_commit()
report_fallback(success) == IF success THEN "created" ELSE "failed"

\* main() of daily_commit_guarantor.py; returns [history, git, obs]
guarantor_main_no_fallback(qerr1, qerr2, e, g) ==
    [history |-> history, git |-> g,
     obs |-> [GNoRun EXCEPT !.report = "secured", !.qerr = qerr1]]

guarantor_main(qerr1, qerr2, e, g) ==
    LET commits == check_any_commit_today(qerr1)
        has_any_commit == \E p \in G_TRACKED_PROJECTS : commits[p]
    IN  IF has_any_commit
        THEN [history |-> history, git |-> g,
              obs |-> [GNoRun EXCEPT !.report = "secured", !.qerr = qerr1,
                                     !.commits = commits]]
        ELSE LET r == create_stats_commit(qerr2, e, g)
             IN  [history |-> r.history, git |-> r.git,
                  obs |-> [r.obs EXCEPT !.report = report_fallback(r.ok),
                                        !.qerr = qerr1,
                                        !.commits = commits]]

\* what a guarantor run does to changes.db: daily_commit_guarantor.py
\* never imports sqlite3 and opens no file but daily_stats.json, so both
\* tables are as they were
guarantor_store_flush(db) ==
    [db EXCEPT !.log = mark_committed(db.log, {db.log[i].id : i \in 1..Len(db.log)})]

guarantor_store(db) == db

(* ---------------- state machine ---------------- *)
\* two invocations the scheduler may overlap
Invocations == {1, 2}
\* an invocation that is not running: nothing read yet
Idle == [pc |-> "idle", plan |-> commit_plan(<<>>)]
\* no path looked at yet
NoCand == [path |-> "", decided |-> FALSE, tracked |-> FALSE]

\* the trees the projects start with: a.py may already exist and be committed
InitTrees == {t \in [Paths -> {Absent, "v1"}] : t["b.py"] = Absent}

Init ==
    /\ fs \in [Projects -> InitTrees]
    /\ head = fs
    /\ repo = [p \in Projects |-> "ok"]
    /\ file_hashes = EmptyHashes
    /\ changes = EmptyChanges
    /\ now = 1
    /\ commitToday = [p \in Projects |-> FALSE]
    /\ statsDirty = FALSE
    /\ history = <<>>
    /\ appended = <<>>
    /\ today = 1
    /\ edits = 0
    /\ lastOp = "start"
    /\ last = NoRun
    /\ gres = GNoRun
    /\ dberr = None
    /\ inv = [i \in Invocations |-> Idle]
    /\ cand = NoCand

\* `change_tracker.py scan` (the default command): init_db(), scan_all()
CmdScan ==
    \E orders \in ScanOrders :
        \E db \in {scan_all(1, orders, Store)} :
            /\ file_hashes' = db.hashes
            /\ changes' = db.log
            /\ lastOp' = "scan"
            /\ last' = NoRun
            /\ gres' = GNoRun
            /\ UNCHANGED side
            /\ UNCHANGED <<fs, head, repo, now, commitToday, statsDirty,
                           history, appended, today, edits>>

\* `change_tracker.py init`: init_db(), then scan_all() as the baseline
CmdInit ==
    \E orders \in ScanOrders :
        \E db \in {scan_all(1, orders, Store)} :
            /\ file_hashes' = db.hashes
            /\ changes' = db.log
            /\ lastOp' = "init"
            /\ last' = NoRun
            /\ gres' = GNoRun
            /\ UNCHANGED side
            /\ UNCHANGED <<fs, head, repo, now, commitToday, statsDirty,
                           history, appended, today, edits>>

\* `change_tracker.py pending`: prints get_pending_changes()
CmdPending ==
    /\ get_pending_changes(changes) # {}
    /\ last' = NoRun
    /\ gres' = GNoRun
    /\ UNCHANGED side
    /\ UNCHANGED <<fs, head, repo, file_hashes, changes, now, commitToday,
                   statsDirty, history, appended, today, edits, lastOp>>

\* `change_tracker.py recent`: prints get_recent_changes()
CmdRecent ==
    /\ last' = NoRun
    /\ gres' = GNoRun
    /\ UNCHANGED side
    /\ UNCHANGED <<fs, head, repo, file_hashes, changes, now, commitToday,
                   statsDirty, history, appended, today, edits, lastOp>>

\* the external tools are asked beyond git add only for a project that
\* has pending rows and a git tree with something to commit
ToolsRun(p) ==
    /\ \E r \in Range(changes) : r.project = p /\ ~r.committed
    /\ repo[p] = "ok"
    /\ TreeDirty(p, Git)
    /\ \A f \in Paths : fs[p][f] # Unreadable

\* `change_tracker.py commit`: group the pending rows by project, then for
\* each project generate_commit_message, commit_to_github and, when the
\* result's status is "committed", mark_committed
CmdCommit ==
    IF get_pending_changes(changes) = {<<>>}
    THEN \* "No changes to commit", sys.exit(0)
         /\ lastOp' = "commit"
         /\ last' = NoRun
         /\ gres' = GNoRun
         /\ UNCHANGED side
         /\ UNCHANGED <<fs, head, repo, file_hashes, changes, now,
                        commitToday, statsDirty, history, appended, today,
                        edits>>
    ELSE \* one plan for each list the pending query may return
         \E plan \in {commit_plan(pending) :
                        pending \in get_pending_changes(changes)} :
         \E answers \in [{p \in Projects : ToolsRun(p)} -> ExtOutcomes] :
            LET ext == [p \in Projects |->
                          IF p \in DOMAIN answers THEN answers[p]
                          ELSE DefaultExt]
            IN
            \E st \in {commit_loop(plan.order, plan, ext,
                                   [log |-> changes, git |-> Git,
                                    last |-> NoRun])} :
                /\ changes' = st.log
                /\ head' = st.git.head
                /\ commitToday' = st.git.commitToday
                /\ statsDirty' = st.git.statsDirty
                /\ last' = st.last
                /\ lastOp' = "commit"
                /\ gres' = GNoRun
                /\ UNCHANGED side
                /\ UNCHANGED <<fs, repo, file_hashes, now, history, appended,
                               today, edits>>

\* one run of daily_commit_guarantor.py: what main() does to the stats
\* file and the git state
GuarantorBody ==
    \E qerr1 \in SUBSET {p \in Projects : repo[p] = "ok" /\ commitToday[p]} :
    \E qerr2 \in SUBSET {p \in qerr1 : qerr1 = {q \in Projects : repo[q] = "ok" /\ commitToday[q]}} :
    \E e \in GExtOutcomes :
        /\ \E r \in {guarantor_main(qerr1, qerr2, e, Git)} :
              /\ history' = r.history
              /\ appended' = IF r.obs.wrote
                             THEN Append(appended, collect_daily_stats(qerr2))
                             ELSE appended
              /\ head' = r.git.head
              /\ commitToday' = r.git.commitToday
              /\ statsDirty' = r.git.statsDirty
              /\ gres' = r.obs
              /\ UNCHANGED side
              \* only a run that gets to git draws answers from it
              /\ r.obs.add = "none" => e = [add |-> "ok", commit |-> "ok", push |-> "ok"]
        /\ \E db \in {guarantor_store(Store)} :
              /\ file_hashes' = db.hashes
              /\ changes' = db.log
        /\ lastOp' = "guarantor"
        /\ last' = NoRun
        /\ UNCHANGED <<fs, repo, now, today>>

\* a run of the guarantor at any moment
GuarantorRun ==
    /\ edits < MaxEdits
    /\ GuarantorBody
    /\ edits' = edits + 1

(* ---------------- environment ---------------- *)
\* someone creates, rewrites, deletes or chmods a file of a project tree
EditFile ==
    \E p \in Projects, f \in Paths, c \in Cells :
        /\ edits < MaxEdits
        /\ repo[p] # "missing"
        /\ fs[p][f] # c
        /\ fs' = [fs EXCEPT ![p][f] = c]
        /\ edits' = edits + 1
        /\ lastOp' = "env"
        /\ last' = NoRun
        /\ gres' = GNoRun
        /\ UNCHANGED side
        /\ UNCHANGED <<head, repo, file_hashes, changes, now, commitToday,
                       statsDirty, history, appended, today>>

\* a human or another tool commits the working tree of a project
ExternalCommit ==
    \E p \in Projects :
        /\ repo[p] = "ok"
        /\ TreeDirty(p, Git)
        /\ \A f \in Paths : fs[p][f] # Unreadable
        /\ \E g \in {Committed(p, Git)} :
              /\ head' = g.head
              /\ commitToday' = g.commitToday
              /\ statsDirty' = g.statsDirty
        /\ lastOp' = "env"
        /\ last' = NoRun
        /\ gres' = GNoRun
        /\ UNCHANGED side
        /\ UNCHANGED <<fs, repo, file_hashes, changes, now, history,
                       appended, today, edits>>

\* a project directory loses its .git, or is removed from the host
BreakRepo ==
    \E p \in Projects, k \in {"nogit", "missing"} :
        /\ edits < MaxEdits
        /\ repo[p] = "ok"
        /\ repo' = [repo EXCEPT ![p] = k]
        /\ fs' = IF k = "missing"
                 THEN [fs EXCEPT ![p] = [f \in Paths |-> Absent]] ELSE fs
        /\ head' = [head EXCEPT ![p] = [f \in Paths |-> Absent]]
        /\ commitToday' = [commitToday EXCEPT ![p] = FALSE]
        /\ statsDirty' = IF p = STATS_PROJECT THEN FALSE ELSE statsDirty
        /\ history' = IF p = STATS_PROJECT /\ k = "missing" THEN <<>> ELSE history
        /\ appended' = IF p = STATS_PROJECT /\ k = "missing" THEN <<>>
                       ELSE appended
        /\ edits' = edits + 1
        /\ lastOp' = "env"
        /\ last' = NoRun
        /\ gres' = GNoRun
        /\ UNCHANGED side
        /\ UNCHANGED <<file_hashes, changes, now, today>>

Next ==
    \/ CmdScan
    \/ CmdInit
    \/ CmdPending
    \/ CmdRecent
    \/ CmdCommit
    \/ GuarantorRun
    \/ EditFile
    \/ ExternalCommit
    \/ BreakRepo

Spec == Init /\ [][Next]_vars

(* ---------------- the guarantor over days ---------------- *)
\* the entry of a day on which the fallback ran and found no commit
StatsDay(d) == [date |-> d, commits_total |-> 0]

\* stats files left by earlier daily runs: none, one short of the cap, full
InitHistories ==
    {[i \in 1..n |-> StatsDay(i)] : n \in {0, HistoryCap - 1, HistoryCap}}

InitG ==
    /\ fs \in [Projects -> InitTrees]
    /\ head = fs
    /\ repo = [p \in Projects |-> "ok"]
    /\ file_hashes = EmptyHashes
    /\ changes = EmptyChanges
    /\ now = 1
    /\ commitToday = [p \in Projects |-> FALSE]
    /\ statsDirty = FALSE
    /\ history \in InitHistories
    /\ appended = history
    /\ today = Len(history) + 1
    /\ edits = 0
    /\ lastOp = "start"
    /\ last = NoRun
    /\ gres = GNoRun
    /\ dberr = None
    /\ inv = [i \in Invocations |-> Idle]
    /\ cand = NoCand

\* the scheduled run of the guarantor (cron, once a day at 23:00): it runs
\* on a day whose entry is not in the stats file yet
GuarantorDaily ==
    /\ lastOp # "guarantor"
    /\ \A i \in 1..Len(history) : history[i].date # today
    /\ GuarantorBody
    /\ UNCHANGED edits

\* midnight: `git log --since <today>` starts from empty again
NewDay ==
    /\ edits < MaxEdits
    /\ today' = today + 1
    /\ commitToday' = [p \in Projects |-> FALSE]
    /\ edits' = edits + 1
    /\ lastOp' = "env"
    /\ last' = NoRun
    /\ gres' = GNoRun
    /\ UNCHANGED side
    /\ UNCHANGED <<fs, head, repo, file_hashes, changes, now, statsDirty,
                   history, appended>>

NextG ==
    \/ GuarantorDaily
    \/ NewDay
    \/ EditFile
    \/ ExternalCommit
    \/ BreakRepo

SpecG == InitG /\ [][NextG]_vars

(* ---------------- several guarantor runs on one day ---------------- *)
\* the entries of the stats file dated d
EntriesOf(h, d) == {i \in 1..Len(h) : h[i].date = d}

\* the guarantor is started again (by hand, or by a timer that fires more
\* than once a day), whatever the earlier runs of the day did
GuarantorAgain ==
    /\ Cardinality(EntriesOf(history, today)) < MaxRuns
    /\ GuarantorBody
    /\ UNCHANGED edits

NextR ==
    \/ GuarantorAgain
    \/ NewDay
    \/ EditFile
    \/ ExternalCommit
    \/ BreakRepo

SpecR == InitG /\ [][NextR]_vars

\* the exit status of the last tracker run: sys.exit(0) or the end of the
\* __main__ block give 0; an exception nothing catches (os.chdir in
\* commit_to_github, an sqlite3 error in a scan) ends the interpreter with 1
exit_status ==
    IF dberr # None \/ \E p \in Projects : last[p].result = "raise"
    THEN 1 ELSE 0

(* ---------------- scans with an unavailable store ---------------- *)
\* `change_tracker.py scan` when changes.db may become unavailable (locked,
\* unreadable, disk error) after init_db(): scan_all() up to the project
\* whose scan_project raises
CmdScanDB ==
    \E bad \in Projects \cup {None} :
    \E orders \in ScanOrders :
    \E k \in 0..(IF bad = None THEN 0 ELSE Len(orders[bad])) :
        \E db \in {scan_all_db(1, orders, Store, bad, k)} :
            /\ file_hashes' = db.hashes
            /\ changes' = db.log
            /\ dberr' = bad
            /\ lastOp' = "scan"
            /\ last' = NoRun
            /\ gres' = GNoRun
            /\ UNCHANGED <<fs, head, repo, now, commitToday, statsDirty,
                           history, appended, today, edits, inv, cand>>

NextDB ==
    \/ CmdScanDB
    \/ EditFile
    \/ BreakRepo

SpecDB == Init /\ [][NextDB]_vars

(* ---------------- overlapping invocations ---------------- *)
\* invocation i of `change_tracker.py commit` reads the pending list
\* (pending = get_pending_changes()); nothing is locked, so it may do so
\* while another invocation is between its own read and its marks. An
\* empty list ends the run at once (sys.exit(0)).
InvRead(i) ==
    /\ inv[i].pc = "idle"
    /\ \E pending \in get_pending_changes(changes) :
          /\ pending # <<>>
          /\ inv' = [inv EXCEPT ![i] = [pc |-> "read",
                                        plan |-> commit_plan(pending)]]
    /\ UNCHANGED <<fs, head, repo, file_hashes, changes, now, commitToday,
                   statsDirty, history, appended, today, edits, lastOp, last,
                   gres, dberr, cand>>

\* invocation i then works through the by_project dict it has built from
\* that list: commit_to_github and mark_committed for each project
InvCommit(i) ==
    /\ inv[i].pc = "read"
    /\ \E answers \in [{p \in Range(inv[i].plan.order) :
                            /\ repo[p] = "ok"
                            /\ TreeDirty(p, Git)
                            /\ \A f \in Paths : fs[p][f] # Unreadable}
                        -> ExtOutcomes] :
          LET ext == [p \in Projects |->
                        IF p \in DOMAIN answers THEN answers[p]
                        ELSE DefaultExt]
          IN
          \E st \in {commit_loop(inv[i].plan.order, inv[i].plan, ext,
                                 [log |-> changes, git |-> Git,
                                  last |-> NoRun])} :
              /\ changes' = st.log
              /\ head' = st.git.head
              /\ commitToday' = st.git.commitToday
              /\ statsDirty' = st.git.statsDirty
              /\ last' = st.last
    /\ inv' = [inv EXCEPT ![i] = Idle]
    /\ lastOp' = "commit"
    /\ gres' = GNoRun
    /\ UNCHANGED <<fs, repo, file_hashes, now, history, appended, today,
                   edits, dberr, cand>>

NextC ==
    \/ \E i \in Invocations : InvRead(i)
    \/ \E i \in Invocations : InvCommit(i)
    \/ CmdScan
    \/ EditFile

SpecC == Init /\ [][NextC]_vars

(* ---------------- the paths should_track is asked about ---------------- *)
\* absolute paths of files under the project directories
ProjectDirs == {"/home/ubuntu/claude-mailbox", "/home/ubuntu/auto-deployer"}
SubDirs == {"/", "/src/", "/node_modules/pkg/", "/src/__pycache__/",
            "/old_node_modules.bak/", "/data.db/"}
Stems == {"a", "x.py", ""}
Suffixes == {".py", ".pyc", ".js", ".md", ".json", ".sh", ".db", ".log",
             ".enc", ".txt", ".py.bak", "_py"}
FilePaths == {d \o sub \o st \o suf :
                d \in ProjectDirs, sub \in SubDirs, st \in Stems,
                suf \in Suffixes}

\* a directory walk comes across a file
WalkYields ==
    /\ \E x \in FilePaths :
          cand' = [path |-> x, decided |-> FALSE, tracked |-> FALSE]
    /\ UNCHANGED <<fs, head, repo, file_hashes, changes, now, commitToday,
                   statsDirty, history, appended, today, edits, lastOp, last,
                   gres, dberr, inv>>

\* `if should_track(filepath)` of scan_project
ShouldTrack ==
    /\ cand.path # ""
    /\ ~cand.decided
    /\ cand' = [cand EXCEPT !.decided = TRUE,
                            !.tracked = should_track(cand.path)]
    /\ UNCHANGED <<fs, head, repo, file_hashes, changes, now, commitToday,
                   statsDirty, history, appended, today, edits, lastOp, last,
                   gres, dberr, inv>>

NextT ==
    \/ WalkYields
    \/ ShouldTrack

SpecT == Init /\ [][NextT]_vars

(* ---------------- repeated scan and commit runs ---------------- *)
\* a `commit` run in which no call of git add, git commit, openssl or git
\* push fails by itself (git add still fails on a file it cannot open)
CmdCommitNoFail ==
    \E plan \in {commit_plan(pending) :
                   pending \in get_pending_changes(changes)} :
    \E st \in {commit_loop(plan.order, plan, [p \in Projects |-> DefaultExt],
                           [log |-> changes, git |-> Git, last |-> NoRun])} :
        /\ changes' = st.log
        /\ head' = st.git.head
        /\ commitToday' = st.git.commitToday
        /\ statsDirty' = st.git.statsDirty
        /\ last' = st.last
        /\ lastOp' = "commit"
        /\ gres' = GNoRun
        /\ UNCHANGED <<fs, repo, file_hashes, now, history, appended, today,
                       edits, dberr, inv, cand>>

NextL ==
    \/ CmdScan
    \/ CmdCommitNoFail
    \/ EditFile
    \/ ExternalCommit

\* the scheduler keeps starting scan runs and commit runs
SpecL ==
    /\ Init
    /\ [][NextL]_vars
    /\ WF_vars(CmdScan)
    /\ WF_vars(CmdCommitNoFail)

(* ======================= claims ======================= *)
\* the rows of the change log that were in the batch of project p in the
\* last `commit` run
BatchRows(p) == {r \in Range(changes) : r.id \in last[p].batch}

\* C1: a ChangeRecord has committed=true only if it belonged to a batch
\* whose version-control commit succeeded and whose push succeeded; stated
\* on the state a `commit` run leaves: a row of the run's batch is marked
\* only when that batch's commit and push both succeeded.
C1_MarkedOnlyAfterCommitAndPush ==
    \A p \in Projects : \A r \in BatchRows(p) :
        r.committed => last[p].commit = "ok" /\ last[p].push = "ok"

\* C2: when the push of a project's batch fails, the outcome for that
\* project is a failure, never "committed", and every row of the batch is
\* still pending when the run ends.
C2_PushFailureLeavesPending ==
    \A p \in Projects :
        last[p].push = "fail" =>
            /\ last[p].result = "error"
            /\ \A r \in BatchRows(p) : ~r.committed

\* C3: when git commit fails for a reason other than "nothing to commit",
\* the outcome for that project is a failure, never "committed", and every
\* row of the batch remains pending.
C3_CommitFailureLeavesPending ==
    \A p \in Projects :
        last[p].commit = "fail" =>
            /\ last[p].result = "error"
            /\ last[p].push = "none"
            /\ \A r \in BatchRows(p) : ~r.committed

\* C4: when git reports "nothing to commit" for a project's batch,
\* commit_to_github returns no_changes, no push is attempted for that
\* project and no row of the batch is marked committed.
C4_NothingToCommitIsNoChanges ==
    \A p \in Projects :
        last[p].commit = "nothing" =>
            /\ last[p].result = "no_changes"
            /\ last[p].token = "none"
            /\ last[p].push = "none"
            /\ \A r \in BatchRows(p) : ~r.committed

\* a `commit` run met "nothing to commit" on a batch that is not empty
C4_Witness ==
    \E p \in Projects :
        /\ last[p].commit = "nothing"
        /\ BatchRows(p) # {}

\* C5: scan idempotence: right after a scan (the `scan` or the `init`
\* command), with no file change since,
\* scan_project of any project, in any iteration order, appends no
\* ChangeRecord and changes no fingerprint.
C5_ScanIdempotent ==
    lastOp \in {"scan", "init"} =>
        \A p \in Projects : \A o \in Perms(current_files(p)) :
            LET r == scan_project(p, o, Store)
            IN  /\ r.found = <<>>
                /\ r.log = changes
                /\ r.hashes = file_hashes

\* a scan has recorded a change of a file that is still in the tree
C5_Witness ==
    /\ lastOp = "scan"
    /\ \E r \in Range(changes) :
          /\ fs[r.project][r.filepath] \in Contents
          /\ select_hash(file_hashes, r.project, r.filepath) # None

\* the rows a scan result appended for file f of project p
NewRows(r, p, f) ==
    {i \in (Len(changes) + 1)..Len(r.log) :
        r.log[i].project = p /\ r.log[i].filepath = f}

\* C6: for each trackable, readable file seen by scan_project: no stored
\* fingerprint -> exactly one `added` row and the fingerprint inserted;
\* stored hash differs -> exactly one `modified` row and the fingerprint
\* overwritten; stored hash equal -> no row and the store not written.
C6_ScanClassifies ==
    \A p \in Projects : \A o \in Perms(current_files(p)) :
        LET r == scan_project(p, o, Store)
        IN  \A f \in current_files(p) :
                fs[p][f] \in Contents =>
                    LET h == get_file_hash(fs[p][f])
                        old == select_hash(file_hashes, p, f)
                        new == NewRows(r, p, f)
                    IN  /\ old = None =>
                            /\ Cardinality(new) = 1
                            /\ \A i \in new : r.log[i].change_type = "added"
                            /\ select_hash(r.hashes, p, f) = h
                        /\ (old # None /\ old # h) =>
                            /\ Cardinality(new) = 1
                            /\ \A i \in new : r.log[i].change_type = "modified"
                            /\ select_hash(r.hashes, p, f) = h
                        /\ old = h =>
                            /\ new = {}
                            /\ select_hash(r.hashes, p, f) = old

\* scans have recorded an added file and a modified file, and a file in the
\* tree has its current hash stored
C6_Witness ==
    /\ lastOp = "scan"
    /\ \E r \in Range(changes) : r.change_type = "added"
    /\ \E r \in Range(changes) :
          /\ r.change_type = "modified"
          /\ select_hash(file_hashes, r.project, r.filepath)
                = get_file_hash(fs[r.project][r.filepath])

\* C7: for a batch of pending rows of one project P the message is
\* "[P] Update <path>" when the batch has exactly one changed file and
\* "[P] Update N files" when it has N > 1 changed files.
C7_MessageCountsChangedFiles ==
    \A p \in Projects :
        last[p].attempted =>
            LET files == {r.filepath : r \in BatchRows(p)}
            IN  last[p].message =
                    IF Cardinality(files) = 1
                    THEN "[" \o p \o "] Update " \o (CHOOSE f \in files : TRUE)
                    ELSE "[" \o p \o "] Update "
                             \o ToString(Cardinality(files)) \o " files"

\* ids a caller may pass to mark_committed: ids of rows, and one id of no row
MarkableIds == 1..(Len(changes) + 1)

\* C8: mark_committed is idempotent: marking a set of ids twice leaves the
\* queue as marking it once does, and re-marking ids that are all
\* committed already changes nothing.
C8_MarkCommittedIdempotent ==
    \A ids \in SUBSET MarkableIds :
        LET once == mark_committed(changes, ids)
        IN  /\ mark_committed(once, ids) = once
            /\ (\A r \in Range(changes) : r.id \in ids => r.committed)
                  => once = changes

\* the queue holds a committed row and a pending row
C8_Witness ==
    /\ \E r \in Range(changes) : r.committed
    /\ \E r \in Range(changes) : ~r.committed

\* C9: get_pending_changes never returns a row whose committed flag is
\* true, and no row that is committed is part of the batch of a later
\* `commit` run.
C9_CommittedNeverPending ==
    [][/\ \A pending \in get_pending_changes(changes) :
              \A i \in 1..Len(pending) :
                  \A r \in Range(changes) : r.id = pending[i].id => ~r.committed
       /\ \A r \in Range(changes) :
              r.committed => \A p \in Projects : r.id \notin last'[p].batch
      ]_vars

\* a `commit` run made a batch while the queue held a committed row
C9_Witness ==
    /\ \E p \in Projects : last[p].attempted
    /\ \E r \in Range(changes) :
          r.committed /\ \A p \in Projects : r.id \notin last[p].batch

\* C10: the change log is append-only and the committed flag is monotonic:
\* no step deletes a row, changes the id, project, path, kind, description
\* or creation time of a row, or resets committed from true to false.
C10_AppendOnlyMonotonic ==
    [][/\ Len(changes') >= Len(changes)
       /\ \A i \in 1..Len(changes) :
             /\ changes'[i].id = changes[i].id
             /\ changes'[i].project = changes[i].project
             /\ changes'[i].filepath = changes[i].filepath
             /\ changes'[i].change_type = changes[i].change_type
             /\ changes'[i].description = changes[i].description
             /\ changes'[i].created_at = changes[i].created_at
             /\ changes[i].committed => changes'[i].committed
      ]_vars

\* scans have appended rows and a `commit` run has marked a row that has
\* other rows after it
C10_Witness ==
    /\ lastOp = "commit"
    /\ \E i, j \in 1..Len(changes) : i < j /\ changes[i].committed

\* the end-to-end scenario after its scan: the store holds one fingerprint
\* and the queue one pending `added` row, both of file f of project p
C11_Scanned(p, f) ==
    /\ Len(changes) = 1
    /\ changes[1].project = p
    /\ changes[1].filepath = f
    /\ changes[1].change_type = "added"
    /\ ~changes[1].committed
    /\ file_hashes = {[project |-> p, filepath |-> f,
                       hash |-> get_file_hash(fs[p][f])]}

\* the scenario after its first `commit` run, commit and push succeeded
C11_Done(p, f) ==
    /\ lastOp = "commit"
    /\ Len(changes) = 1
    /\ changes[1].project = p
    /\ changes[1].filepath = f
    /\ changes[1].committed
    /\ last[p].commit = "ok"
    /\ last[p].push = "ok"

\* C11: end to end: from an empty store and one new file f in project p,
\* scan then `commit` with commit and push succeeding makes exactly one
\* commit attempt, on p, with message "[p] Update f", and sets the row's
\* committed flag; a second `commit` run with no new change in between
\* makes no commit attempt and no push.
C11_EndToEnd ==
    [][\A p \in Projects, f \in Paths :
          /\ (/\ C11_Scanned(p, f)
              /\ lastOp' = "commit"
              /\ last'[p].commit = "ok"
              /\ last'[p].push = "ok")
                => /\ last'[p].attempted
                   /\ last'[p].message = "[" \o p \o "] Update " \o f
                   /\ \A q \in Projects \ {p} : ~last'[q].attempted
                   /\ Len(changes') = 1
                   /\ changes'[1].committed
          /\ (C11_Done(p, f) /\ lastOp' = "commit")
                => /\ last' = NoRun
                   /\ changes' = changes
                   /\ head' = head
      ]_vars

\* the first `commit` run of the scenario has committed and pushed the one
\* row under the one-file message
C11_Witness ==
    \E p \in Projects, f \in Paths :
        /\ C11_Done(p, f)
        /\ changes[1].change_type = "added"
        /\ last[p].message = "[" \o p \o "] Update " \o f

\* no tracked project has a commit since the start of today
NoCommitToday == \A p \in Projects : ~(repo[p] = "ok" /\ commitToday[p])

\* C12: whenever no tracked project has a commit since the start of today,
\* one guarantor run makes exactly one fallback commit attempt (one call of
\* git commit) on the stats project, in every case, a missing stats project
\* directory and a failing stage step included.
C12_OneFallbackAttemptAlways ==
    [][(gres'.report # "none" /\ NoCommitToday) => gres'.commit # "none"]_vars

\* C12, as the code has it: with no commit today a guarantor run takes the
\* fallback path; it calls git commit, once, exactly when the stats project
\* directory exists and staging the stats file succeeded; with the directory
\* missing it writes nothing and runs no git command, with staging failed
\* it runs neither git commit nor git push, and both runs report failure.
C12_OneFallbackAttemptWhenStaged ==
    [][(gres'.report # "none" /\ NoCommitToday) =>
          /\ gres'.report \in {"created", "failed"}
          /\ repo[STATS_PROJECT] = "missing" =>
                /\ gres' = [GNoRun EXCEPT !.report = "failed"]
                /\ history' = history
          /\ repo[STATS_PROJECT] # "missing" =>
                /\ gres'.wrote
                /\ gres'.add \in {"ok", "fail"}
          /\ gres'.add = "fail" =>
                /\ gres'.commit = "none"
                /\ gres'.push = "none"
                /\ gres'.report = "failed"
          /\ gres'.add = "ok" => gres'.commit \in {"ok", "fail", "nothing"}
      ]_vars

\* a guarantor run found no commit, staged the stats file and committed it
C12_Witness ==
    /\ lastOp = "guarantor"
    /\ gres.report = "created"
    /\ gres.qerr = {}
    /\ gres.add = "ok"
    /\ gres.commit = "ok"

\* C13: whenever at least one tracked project has a commit since the start
\* of today, a guarantor run makes no fallback commit attempt, does not
\* append to or rewrite the stats history file, and performs no stage and
\* no push.
C13_SatisfiedRunDoesNothing ==
    [][(gres'.report # "none" /\ ~NoCommitToday) =>
          /\ gres'.report = "secured"
          /\ ~gres'.wrote
          /\ history' = history
          /\ gres'.add = "none"
          /\ gres'.commit = "none"
          /\ gres'.push = "none"
      ]_vars

\* C14: the guarantor's global state is satisfied if and only if at least
\* one tracked project reports a history entry since the start of today; a
\* tracked project whose directory is missing, that is not a repository, or
\* whose history query errors or times out counts as not satisfied and
\* never makes the global state satisfied.
C14_SatisfiedIffSomeProjectReports ==
    [][gres'.report # "none" =>
          /\ \A p \in Projects :
                gres'.commits[p] <=>
                    (repo[p] = "ok" /\ commitToday[p] /\ p \notin gres'.qerr)
          /\ gres'.report = "secured" <=> \E p \in Projects : gres'.commits[p]
          /\ (\A p \in Projects : repo[p] # "ok" \/ p \in gres'.qerr)
                => gres'.report # "secured"
      ]_vars

\* a guarantor run found the day satisfied by one project while another
\* project reported nothing
C14_Witness ==
    /\ lastOp = "guarantor"
    /\ gres.report = "secured"
    /\ \E p, q \in Projects : gres.commits[p] /\ ~gres.commits[q]

\* C15: history bound: after any number of fallback appends the persisted
\* stats history holds at most 30 entries, and after more than 30 appends it
\* holds exactly the 30 most recently appended entries in append order, the
\* oldest having been evicted first.
C15_HistoryBound ==
    /\ Len(history) <= HistoryCap
    /\ Len(appended) <= HistoryCap => history = appended
    /\ Len(appended) > HistoryCap =>
          /\ Len(history) = HistoryCap
          /\ \A i \in 1..HistoryCap :
                history[i] = appended[Len(appended) - HistoryCap + i]

\* more than 30 entries were appended and the file holds 30
C15_Witness ==
    /\ lastOp = "guarantor"
    /\ gres.wrote
    /\ Len(appended) > HistoryCap
    /\ Len(history) = HistoryCap
    /\ history[HistoryCap].date = today

\* C16: when the push of the fallback commit fails, create_stats_commit
\* returns failure, the run makes no further commit or push attempt, and
\* the run reports the failure outcome, never 'secured' or 'created'.
C16_FallbackPushFailureReported ==
    gres.push = "fail" =>
        /\ gres.report = "failed"
        /\ gres.add = "ok"
        /\ gres.commit \in {"ok", "fail"}

\* a guarantor run committed the stats file and its push failed
C16_Witness ==
    /\ lastOp = "guarantor"
    /\ gres.commit = "ok"
    /\ gres.push = "fail"

\* C17: a "nothing to commit" answer of git is a no-op distinct from
\* failure on every commit path: on the guarantor's fallback path it is not
\* reported to the operator as a failed commit.
C17_FallbackNothingToCommitNotFailure ==
    gres.commit = "nothing" => gres.report # "failed"

\* the rows the Fingerprint Store holds for file f of project p
FingerprintsOf(rows, p, f) == {r \in rows : r.project = p /\ r.filepath = f}

\* C18: in every reachable state the Fingerprint Store holds at most one
\* fingerprint per (project, relative path), after any sequence of scans
\* and init runs.
C18_OneFingerprintPerFile ==
    \A p \in Projects, f \in Paths :
        Cardinality(FingerprintsOf(file_hashes, p, f)) <= 1

\* the store holds fingerprints of two files and a scan has overwritten one
C18_Witness ==
    /\ Cardinality(file_hashes) = 2
    /\ \E r \in Range(changes) :
          /\ r.change_type = "modified"
          /\ FingerprintsOf(file_hashes, r.project, r.filepath) # {}

\* C19: after every scan_project that returns normally, for each trackable
\* readable file present in the project tree the stored fingerprint of
\* (project, path) equals the hash of the content that scan observed;
\* stated for scan_project applied in any state, and for the state a `scan`
\* or `init` command leaves.
C19_FingerprintIsObservedHash ==
    /\ \A p \in Projects : \A o \in Perms(current_files(p)) :
          LET r == scan_project(p, o, Store)
          IN  \A f \in current_files(p) :
                 fs[p][f] \in Contents =>
                    select_hash(r.hashes, p, f) = get_file_hash(fs[p][f])
    /\ lastOp \in {"scan", "init"} =>
          \A p \in Projects : \A f \in current_files(p) :
              fs[p][f] \in Contents =>
                 select_hash(file_hashes, p, f) = get_file_hash(fs[p][f])

\* a scan has seen a file whose content differs from the stored fingerprint
\* and now stores the hash of the new content
C19_Witness ==
    /\ lastOp \in {"scan", "init"}
    /\ \E p \in Projects, f \in Paths :
          /\ fs[p][f] = "v2"
          /\ select_hash(file_hashes, p, f) = get_file_hash("v2")
          /\ \E r \in Range(changes) :
                r.project = p /\ r.filepath = f /\ r.change_type = "modified"

\* C20: the `init` command records a fingerprint baseline for every
\* trackable file while emitting zero ChangeRecords: after init on an empty
\* store the change log is empty and a following `commit` run finds nothing
\* pending.
C20_InitEmitsNoRecords ==
    [][(lastOp' = "init" /\ file_hashes = EmptyHashes /\ changes = EmptyChanges)
          => /\ changes' = EmptyChanges
             /\ get_pending_changes(changes') = {<<>>}
             /\ \A p \in Projects : \A f \in current_files(p) :
                   fs[p][f] \in Contents =>
                      select_hash(file_hashes', p, f) = get_file_hash(fs[p][f])
      ]_vars

\* the fingerprints and change rows of project p
StoreOf(hashes, log, p) ==
    [hashes |-> {r \in hashes : r.project = p},
     log |-> {r \in Range(log) : r.project = p}]

\* C21: when the store is unavailable during the scan of a project, the scan
\* of that project aborts and writes no fingerprint and no record, and the
\* scans of the other tracked projects of the same scan_all run still take
\* place: afterwards every readable file of every other project has its
\* current hash as its fingerprint.
C21_StoreFailureSkipsOnlyThatProject ==
    [][(lastOp' = "scan" /\ dberr' # None) =>
          /\ StoreOf(file_hashes', changes', dberr')
                = StoreOf(file_hashes, changes, dberr')
          /\ \A p \in Projects \ {dberr'} : \A f \in current_files(p) :
                get_file_hash(fs[p][f]) # None =>
                    select_hash(file_hashes', p, f) = get_file_hash(fs[p][f])
      ]_vars


\* C22: a credential failure (the token decryption fails or yields an empty
\* token) aborts the project's batch: the outcome is the reported failure,
\* no push is attempted without the credential, and the records of the
\* batch are not marked committed.
C22_CredentialFailureAbortsBatch ==
    \A p \in Projects :
        last[p].token \in {"empty", "raise"} =>
            /\ last[p].result = "error"
            /\ last[p].push = "none"
            /\ \A r \in BatchRows(p) : ~r.committed


\* the pending rows of project p
PendingOf(log, p) == {r \in Range(log) : r.project = p /\ ~r.committed}

\* a `commit` run that got to the loop over by_project has just finished
CommitRunStep == lastOp' = "commit" /\ last' # NoRun

\* C23: no external-tool failure crashes a run: in a `commit` run a failure
\* while handling one project (project directory missing, not a repository,
\* stage, commit or push error) yields an error outcome for that project,
\* and the batches of the remaining projects with pending records are still
\* processed.
C23_FailureOfOneProjectIsContained ==
    [][CommitRunStep =>
          \A p \in Projects :
              /\ PendingOf(changes, p) # {} => last'[p].attempted
              /\ last'[p].attempted =>
                    /\ last'[p].result # "raise"
                    /\ (\/ repo[p] # "ok"
                        \/ "fail" \in {last'[p].add, last'[p].commit,
                                       last'[p].push})
                          => last'[p].result = "error"
      ]_vars


\* C24: every run of the tracker CLI (scan, pending, recent, commit, init)
\* terminates with exit status 0, no-change runs and runs in which the
\* commit or the push fails included; init_db has succeeded in every run of
\* this specification, so no run exits non-zero.
C24_EveryRunExitsZero == exit_status = 0


\* C25: a file that disappears from a project tree causes no change row in
\* any later scan and its fingerprint stays in the store unchanged; no scan
\* (no step at all) ever removes a fingerprint.
C25_DeletedFileKeepsFingerprint ==
    [][\A p \in Projects, f \in Paths :
          /\ FingerprintsOf(file_hashes, p, f) # {}
                => FingerprintsOf(file_hashes', p, f) # {}
          /\ (lastOp' \in {"scan", "init"} /\ f \notin current_files(p)) =>
                /\ FingerprintsOf(file_hashes', p, f)
                      = FingerprintsOf(file_hashes, p, f)
                /\ \A i \in (Len(changes) + 1)..Len(changes') :
                      ~(changes'[i].project = p /\ changes'[i].filepath = f)
      ]_vars

\* a scan has run after a fingerprinted file had disappeared from its tree
C25_Witness ==
    /\ lastOp = "scan"
    /\ \E p \in Projects, f \in Paths :
          /\ repo[p] = "ok"
          /\ fs[p][f] = Absent
          /\ FingerprintsOf(file_hashes, p, f) # {}


\* C26: in one `commit` run each project with at least one pending record
\* gets exactly one commit attempt, whose batch is exactly that project's
\* pending records, and a project with no pending record gets no stage,
\* commit or push.
C26_OneAttemptPerPendingProject ==
    [][CommitRunStep =>
          \A p \in Projects :
              IF PendingOf(changes, p) # {}
              THEN /\ last'[p].attempted
                   /\ last'[p].batch = {r.id : r \in PendingOf(changes, p)}
              ELSE last'[p] = NoAttempt
      ]_vars


\* C27: a guarantor run never writes the Fingerprint Store or the Change
\* Queue: after any guarantor run the set of fingerprints, the change rows
\* and every committed flag are what they were before it.
C27_GuarantorLeavesStoreAlone ==
    [][gres'.report # "none" =>
          /\ file_hashes' = file_hashes
          /\ changes' = changes]_vars

\* a guarantor run made its fallback commit while the store held
\* fingerprints and a pending change row
C27_Witness ==
    /\ lastOp = "guarantor"
    /\ gres.report = "created"
    /\ file_hashes # {}
    /\ \E r \in Range(changes) : ~r.committed


\* the invocations that have read the pending list and not yet finished
\* their commits and marks
InSequence == {i \in Invocations : inv[i].pc # "idle"}

\* C28: when the scheduler overlaps two invocations, an exclusive run-lock
\* keeps their sequences apart: in no reachable state are two invocations
\* both between their pending read and the end of the matching
\* mark_committed.
C28_RunLockExcludesOverlap == Cardinality(InSequence) <= 1


\* C29: get_pending_changes returns all uncommitted records oldest first:
\* every uncommitted row is in the list, and of any two returned records
\* the one created earlier (smaller id) comes first, also when both were
\* created within the same timestamp unit.
C29_PendingOldestFirst ==
    \A pending \in get_pending_changes(changes) :
        /\ {pending[i].id : i \in 1..Len(pending)}
              = {r.id : r \in {x \in Range(changes) : ~x.committed}}
        /\ \A i, j \in 1..Len(pending) :
              i < j => pending[i].id < pending[j].id


\* the path matches an exclusion pattern: a plain pattern is a substring of
\* the path, the rest of a `*` pattern is a suffix of the file name
MatchesExclusion(path) ==
    \/ contains(path, "__pycache__")
    \/ contains(path, "node_modules")
    \/ \E suf \in {".pyc", ".db", ".log", ".enc"} :
          endswith(basename(path), suf)

\* the file name ends with the rest of an inclusion pattern
MatchesInclusion(path) ==
    \E suf \in {".py", ".js", ".md", ".json", ".sh"} :
        endswith(basename(path), suf)

\* C30: a path matching any exclusion pattern is never tracked, even when
\* it also matches an inclusion pattern; a path matching no inclusion
\* pattern is never tracked.
C30_ExclusionWinsAndInclusionNeeded ==
    cand.decided =>
        /\ MatchesExclusion(cand.path) => ~cand.tracked
        /\ ~MatchesInclusion(cand.path) => ~cand.tracked

\* should_track has refused a path that matches an inclusion pattern and
\* an exclusion pattern
C30_Witness ==
    /\ cand.decided
    /\ MatchesExclusion(cand.path)
    /\ MatchesInclusion(cand.path)
    /\ ~cand.tracked


\* C31: the persisted stats history holds at most one entry per calendar
\* date, after any sequence of guarantor runs, several runs on the same day
\* whose fallback commit failed included.
C31_OneEntryPerDate ==
    \A i, j \in 1..Len(history) :
        history[i].date = history[j].date => i = j


\* C32: when every pending row of project P's batch refers to the same file
\* path (the file was modified in several scans before any successful
\* commit), the message is "[P] Update <path>", because exactly one file
\* changed.
C32_OnePathManyRowsNamesThePath ==
    \A p \in Projects, f \in Paths :
        (/\ last[p].attempted
         /\ Cardinality(BatchRows(p)) > 1
         /\ \A r \in BatchRows(p) : r.filepath = f)
            => last[p].message = "[" \o p \o "] Update " \o f


\* project p has a pending row for file f
HasPending(p, f) ==
    \E r \in Range(changes) : r.project = p /\ r.filepath = f /\ ~r.committed

\* staging in p cannot succeed: a file of its tree cannot be opened
StageBlocked(p) == repo[p] # "ok" \/ \E f \in Paths : fs[p][f] = Unreadable

\* C33: under repeated scan and commit runs in which the stage, commit and
\* push calls do not fail, every pending change row is eventually marked
\* committed, a row whose bytes are already in the repository history
\* included.
C33_PendingEventuallyCommitted ==
    \A p \in Projects, f \in Paths :
        HasPending(p, f) ~> (~HasPending(p, f) \/ StageBlocked(p))


\* C34: scan_project writes its fingerprints and its change rows in one
\* storage transaction: in every persisted state each (project, path) that
\* has a fingerprint also has at least one change row, and a scan
\* interrupted before its final commit leaves the fingerprints and the
\* change log of its project as they were before the scan.
C34_ScanIsAtomic ==
    [][/\ \A x \in file_hashes' : \E r \in Range(changes') :
              r.project = x.project /\ r.filepath = x.filepath
       /\ (lastOp' = "scan" /\ dberr' # None) =>
              StoreOf(file_hashes', changes', dberr')
                  = StoreOf(file_hashes, changes, dberr')
      ]_vars

\* a scan was interrupted in a project that had a new or modified file to
\* record, while the store already held fingerprints
C34_Witness ==
    /\ lastOp = "scan"
    /\ dberr # None
    /\ file_hashes # {}
    /\ \E f \in current_files(dberr) :
          /\ get_file_hash(fs[dberr][f]) # None
          /\ select_hash(file_hashes, dberr, f) # get_file_hash(fs[dberr][f])


\* C35: when a fallback commit was created locally but its push failed, the
\* next guarantor run on the same day does not report the day as satisfied
\* on the strength of that unpushed commit (no other project has a commit
\* today); it attempts the push again.
C35_UnpushedCommitIsNotSecured ==
    [][(/\ gres.commit = "ok"
        /\ gres.push = "fail"
        /\ gres'.report # "none"
        /\ today' = today
        /\ \A p \in Projects \ {STATS_PROJECT} :
              ~(repo[p] = "ok" /\ commitToday[p]))
          => /\ gres'.report # "secured"
             /\ gres'.push # "none"
      ]_vars

====
